---- MODULE Spec2Model ----
(***************************************************************************)
(* Model of listings/ch17-async-await/listing-17-04/src/main.rs: a process *)
(* reads a URL from its command line, fetches the page, parses it and      *)
(* prints the content of the first `title` element.                        *)
(*                                                                         *)
(* main is an async fn; the model takes its future as driven to completion *)
(* by an executor, one task per process.  Every variable is a function of  *)
(* the operating-system process, so that several runs can be interleaved.  *)
(* trpl (get, Response::text, Html) is not part of the listing; it is      *)
(* modelled from the interface the specification gives for it.             *)
(***************************************************************************)
EXTENDS Integers, Sequences, FiniteSets

VARIABLES argv, pc, args, url, requests, page, response_text, doc, title,
          stdout, events

vars == <<argv, pc, args, url, requests, page, response_text, doc, title,
          stdout, events>>

-----------------------------------------------------------------------------
(* Bounds and input domains *)

MaxArgs == 2      \* arguments after the program name
MaxElems == 2     \* elements in a served page

Prog == "listing-17-04"
URLs == {"https://a.test", "not a url"}
Tags == {"title", "p"}
Texts == {<<"A">>, <<"B", "&", "C">>}

SeqsUpTo(S, n) == UNION {[1..k -> S] : k \in 0..n}

Elements == [tag : Tags, text : Texts]
Pages == SeqsUpTo(Elements, MaxElems)
Argvs == {<<Prog>> \o rest : rest \in SeqsUpTo(URLs, MaxArgs)}

-----------------------------------------------------------------------------
(* Option<T> *)

None == <<>>
Some(x) == <<x>>
IsSome(o) == o # None
Unwrap(o) == o[1]

-----------------------------------------------------------------------------
(* HTML text: serialisation on the server side, Html::parse, select_first, *)
(* inner_html.                                                             *)

Escape(c) == CASE c = "&" -> "&amp;"
               [] c = "<" -> "&lt;"
               [] c = ">" -> "&gt;"
               [] OTHER -> c

Unescape(t) == CASE t = "&amp;" -> "&"
                 [] t = "&lt;" -> "<"
                 [] t = "&gt;" -> ">"
                 [] OTHER -> t

OpenTag(tag) == "<" \o tag \o ">"
CloseTag(tag) == "</" \o tag \o ">"

SerializeElement(e) ==
    <<OpenTag(e.tag)>> \o [i \in 1..Len(e.text) |-> Escape(e.text[i])]
                       \o <<CloseTag(e.tag)>>

RECURSIVE Serialize(_)
Serialize(pg) ==
    IF pg = <<>> THEN <<>>
    ELSE SerializeElement(Head(pg)) \o Serialize(Tail(pg))

NoTag == ""

RECURSIVE ParseFrom(_, _, _, _)
ParseFrom(toks, cur, text, out) ==
    IF toks = <<>> THEN out
    ELSE LET t == Head(toks)
             r == Tail(toks)
         IN  IF cur = NoTag
             THEN IF \E g \in Tags : t = OpenTag(g)
                  THEN ParseFrom(r, CHOOSE g \in Tags : t = OpenTag(g), <<>>, out)
                  ELSE ParseFrom(r, cur, text, out)
             ELSE IF t = CloseTag(cur)
                  THEN ParseFrom(r, NoTag, <<>>,
                                 Append(out, [tag |-> cur, text |-> text]))
                  ELSE ParseFrom(r, cur, Append(text, Unescape(t)), out)

HtmlParse(source) == ParseFrom(source, NoTag, <<>>, <<>>)

Matches(d, selector) == {i \in 1..Len(d) : d[i].tag = selector}

select_first(d, selector) ==
    IF Matches(d, selector) = {} THEN None
    ELSE Some(d[CHOOSE i \in Matches(d, selector) :
                    \A j \in Matches(d, selector) : i <= j])

select_last(d, selector) ==
    IF Matches(d, selector) = {} THEN None
    ELSE Some(d[CHOOSE i \in Matches(d, selector) :
                    \A j \in Matches(d, selector) : i >= j])

RECURSIVE Concat(_)
Concat(s) == IF s = <<>> THEN "" ELSE Head(s) \o Concat(Tail(s))

inner_html(e) == Concat([i \in 1..Len(e.text) |-> Escape(e.text[i])])

\* Option::map applied to inner_html
MapInnerHtml(o) == IF IsSome(o) THEN Some(inner_html(Unwrap(o))) ELSE None

-----------------------------------------------------------------------------
(* page_title, lines 19-21: the query on the parsed document *)

Selector == "title"

TitleOfLast(d) == MapInnerHtml(select_last(d, Selector))

TitleOf(d) == MapInnerHtml(select_first(d, Selector))

-----------------------------------------------------------------------------
(* main, lines 11-14: the two shapes of the printed line *)

FormatSomeSwapped(u, t) == "The title for " \o t \o " was " \o u

FormatSome(u, t) == "The title for " \o u \o " was " \o t

FormatNoneAsSome(u) == "The title for " \o u \o " was "

FormatNone(u) == u \o " had no title"

MatchLine(u, o) == IF IsSome(o) THEN FormatSome(u, Unwrap(o)) ELSE FormatNone(u)

-----------------------------------------------------------------------------
(* State after process creation *)

Fresh(P) ==
    /\ pc = [p \in P |-> "start"]
    /\ args = [p \in P |-> <<>>]
    /\ url = [p \in P |-> ""]
    /\ requests = [p \in P |-> <<>>]
    /\ page = [p \in P |-> <<>>]
    /\ response_text = [p \in P |-> <<>>]
    /\ doc = [p \in P |-> <<>>]
    /\ title = [p \in P |-> None]
    /\ stdout = [p \in P |-> <<>>]
    /\ events = [p \in P |-> <<>>]

Init ==
    /\ argv \in [{1} -> Argvs]
    /\ Fresh({1})

InitConc ==
    /\ argv \in {a \in [{1, 2} -> Argvs] :
                    /\ Len(a[1]) = 2
                    /\ Len(a[2]) = 2
                    /\ a[1][2] # a[2][2]}
    /\ Fresh({1, 2})

-----------------------------------------------------------------------------
(* Steps of one process *)

Goto(p, l) == pc' = [pc EXCEPT ![p] = l]
Log(p, e) == events' = [events EXCEPT ![p] = Append(@, e)]

\* line 8
CollectArgs(p) ==
    /\ pc[p] = "start"
    /\ args' = [args EXCEPT ![p] = argv[p]]
    /\ Goto(p, "index")
    /\ UNCHANGED <<argv, url, requests, page, response_text, doc, title,
                   stdout, events>>

IndexArgDefault(p) ==
    /\ pc[p] = "index"
    /\ url' = [url EXCEPT ![p] = IF Len(args[p]) > 1 THEN args[p][2] ELSE ""]
    /\ Goto(p, "call")
    /\ UNCHANGED <<argv, args, requests, page, response_text, doc, title,
                   stdout, events>>

IndexArgLast(p) ==
    /\ pc[p] = "index"
    /\ IF Len(args[p]) > 1
       THEN /\ url' = [url EXCEPT ![p] = args[p][Len(args[p])]]
            /\ Goto(p, "call")
       ELSE /\ Goto(p, "panicked")
            /\ UNCHANGED url
    /\ UNCHANGED <<argv, args, requests, page, response_text, doc, title,
                   stdout, events>>

\* line 10: args[1] counts from zero, the program name being args[0]
IndexArg(p) ==
    /\ pc[p] = "index"
    /\ IF Len(args[p]) > 1
       THEN /\ url' = [url EXCEPT ![p] = args[p][2]]
            /\ Goto(p, "call")
       ELSE /\ Goto(p, "panicked")
            /\ UNCHANGED url
    /\ UNCHANGED <<argv, args, requests, page, response_text, doc, title,
                   stdout, events>>

GetTwice(p) ==
    /\ pc[p] = "call"
    /\ requests' = [requests EXCEPT ![p] = @ \o <<url[p], url[p]>>]
    /\ Log(p, "request")
    /\ Goto(p, "await_get")
    /\ UNCHANGED <<argv, args, url, page, response_text, doc, title, stdout>>

\* lines 11 and 18: page_title(url) is called and trpl::get(url) issued
Get(p) ==
    /\ pc[p] = "call"
    /\ requests' = [requests EXCEPT ![p] = Append(@, url[p])]
    /\ Log(p, "request")
    /\ Goto(p, "await_get")
    /\ UNCHANGED <<argv, args, url, page, response_text, doc, title, stdout>>

\* line 18, first await: the response arrives
GetOk(p) ==
    /\ pc[p] = "await_get"
    /\ Log(p, "response")
    /\ Goto(p, "await_text")
    /\ UNCHANGED <<argv, args, url, requests, page, response_text, doc,
                   title, stdout>>

\* line 18, first await: the fetch fails
GetErr(p) ==
    /\ pc[p] = "await_get"
    /\ Goto(p, "panicked")
    /\ UNCHANGED <<argv, args, url, requests, page, response_text, doc,
                   title, stdout, events>>

\* line 18, second await: the whole body has been read
TextOk(p) ==
    /\ pc[p] = "await_text"
    /\ \E pg \in Pages :
          /\ page' = [page EXCEPT ![p] = pg]
          /\ response_text' = [response_text EXCEPT ![p] = Serialize(pg)]
    /\ Log(p, "body")
    /\ Goto(p, "parse")
    /\ UNCHANGED <<argv, args, url, requests, doc, title, stdout>>

\* line 18, second await: reading the body fails
TextErr(p) ==
    /\ pc[p] = "await_text"
    /\ Goto(p, "panicked")
    /\ UNCHANGED <<argv, args, url, requests, page, response_text, doc,
                   title, stdout, events>>

\* line 19
Parse(p) ==
    /\ pc[p] = "parse"
    /\ doc' = [doc EXCEPT ![p] = HtmlParse(response_text[p])]
    /\ Log(p, "parse")
    /\ Goto(p, "select")
    /\ UNCHANGED <<argv, args, url, requests, page, response_text, title,
                   stdout>>

\* lines 20-21, and the return of page_title
Select(p) ==
    /\ pc[p] = "select"
    /\ title' = [title EXCEPT ![p] = TitleOf(doc[p])]
    /\ Log(p, "select")
    /\ Goto(p, "match")
    /\ UNCHANGED <<argv, args, url, requests, page, response_text, doc,
                   stdout>>

PrintlnTwice(p) ==
    /\ pc[p] = "match"
    /\ stdout' = [stdout EXCEPT ![p] = @ \o <<MatchLine(url[p], title[p]),
                                              MatchLine(url[p], title[p])>>]
    /\ Log(p, "print")
    /\ Goto(p, "done")
    /\ UNCHANGED <<argv, args, url, requests, page, response_text, doc,
                   title>>

PrintlnShared(p) ==
    /\ pc[p] = "match"
    /\ stdout' = [stdout EXCEPT ![p] = Append(@, MatchLine(url[1], title[p]))]
    /\ Log(p, "print")
    /\ Goto(p, "done")
    /\ UNCHANGED <<argv, args, url, requests, page, response_text, doc,
                   title>>

PrintlnEarly(p) ==
    /\ pc[p] \in {"select", "match"}
    /\ stdout' = [stdout EXCEPT ![p] = Append(@, MatchLine(url[p], title[p]))]
    /\ Log(p, "print")
    /\ Goto(p, "done")
    /\ UNCHANGED <<argv, args, url, requests, page, response_text, doc,
                   title>>

PrintlnNoReturn(p) ==
    /\ pc[p] = "match"
    /\ stdout' = [stdout EXCEPT ![p] = <<MatchLine(url[p], title[p])>>]
    /\ events' = [events EXCEPT ![p] =
                     IF stdout[p] = <<>> THEN Append(@, "print") ELSE @]
    /\ Goto(p, "match")
    /\ UNCHANGED <<argv, args, url, requests, page, response_text, doc,
                   title>>

\* lines 11-15: the match prints one line and main returns
Println(p) ==
    /\ pc[p] = "match"
    /\ stdout' = [stdout EXCEPT ![p] = Append(@, MatchLine(url[p], title[p]))]
    /\ Log(p, "print")
    /\ Goto(p, "done")
    /\ UNCHANGED <<argv, args, url, requests, page, response_text, doc,
                   title>>

Step(p) ==
    \/ CollectArgs(p)
    \/ IndexArg(p)
    \/ Get(p)
    \/ GetOk(p)
    \/ GetErr(p)
    \/ TextOk(p)
    \/ TextErr(p)
    \/ Parse(p)
    \/ Select(p)
    \/ Println(p)

Next ==
    \/ \E p \in DOMAIN pc : CollectArgs(p)
    \/ \E p \in DOMAIN pc : IndexArg(p)
    \/ \E p \in DOMAIN pc : Get(p)
    \/ \E p \in DOMAIN pc : GetOk(p)
    \/ \E p \in DOMAIN pc : GetErr(p)
    \/ \E p \in DOMAIN pc : TextOk(p)
    \/ \E p \in DOMAIN pc : TextErr(p)
    \/ \E p \in DOMAIN pc : Parse(p)
    \/ \E p \in DOMAIN pc : Select(p)
    \/ \E p \in DOMAIN pc : Println(p)

Spec == Init /\ [][Next]_vars

SpecConc == InitConc /\ [][Next]_vars

FairSpec == Init /\ [][Next]_vars /\ \A p \in {1} : WF_vars(Step(p))

-----------------------------------------------------------------------------
(* What a run is expected to print, stated on the command line and on the  *)
(* page the server holds.                                                  *)

Procs == DOMAIN pc
Terminal == {"done", "panicked"}
Order == <<"request", "response", "body", "parse", "select", "print">>

Happened(p, e) == \E i \in 1..Len(events[p]) : events[p][i] = e
TitleElems(pg) == {i \in 1..Len(pg) : pg[i].tag = "title"}
FirstTitle(pg) == CHOOSE i \in TitleElems(pg) : \A j \in TitleElems(pg) : i <= j
InnerMarkup(e) == Concat(SubSeq(SerializeElement(e), 2, Len(e.text) + 1))
TitleLine(u, e) == "The title for " \o u \o " was " \o InnerMarkup(e)
NoTitleLine(u) == u \o " had no title"
Expected(u, pg) ==
    IF TitleElems(pg) = {} THEN NoTitleLine(u)
    ELSE TitleLine(u, pg[FirstTitle(pg)])

\* C1: a run whose fetch and body read succeeded on a page that holds a
\* title element ends having printed exactly one line, `The title for u was
\* t`, u being the argument at position 1 and t the inner markup of a title
\* element of the page.
C1_TitleLinePrinted ==
    \A p \in Procs :
        (pc[p] = "done" /\ TitleElems(page[p]) # {}) =>
            \E i \in TitleElems(page[p]) :
                stdout[p] = <<TitleLine(argv[p][2], page[p][i])>>

C1_Witness ==
    \E p \in Procs : /\ pc[p] = "done"
                     /\ TitleElems(page[p]) # {}
                     /\ \E i \in TitleElems(page[p]) :
                            Len(page[p][i].text) > 1
                     /\ Len(stdout[p]) = 1

\* C2: once the body of a page without a title element has been read, the
\* run never fails, page_title returns None, and the run ends having printed
\* exactly the line `u had no title`.
C2_NoTitleIsNotFailure ==
    \A p \in Procs :
        (Happened(p, "body") /\ TitleElems(page[p]) = {}) =>
            /\ pc[p] # "panicked"
            /\ pc[p] \in {"match", "done"} => title[p] = None
            /\ pc[p] = "done" => stdout[p] = <<NoTitleLine(argv[p][2])>>

C2_Witness ==
    \E p \in Procs : /\ pc[p] = "done"
                     /\ page[p] # <<>>
                     /\ TitleElems(page[p]) = {}
                     /\ Len(stdout[p]) = 1

\* C3: on a page with two or more title elements page_title returns the
\* inner markup of the first one in document order, and the printed line is
\* the one built from the first, never the one built from a later title
\* element of different content.
C3_FirstTitleWins ==
    \A p \in Procs :
        Cardinality(TitleElems(page[p])) >= 2 =>
            LET first == page[p][FirstTitle(page[p])]
            IN  /\ pc[p] \in {"match", "done"} =>
                       title[p] = Some(InnerMarkup(first))
                /\ pc[p] = "done" =>
                       /\ stdout[p] = <<TitleLine(argv[p][2], first)>>
                       /\ \A j \in TitleElems(page[p]) :
                              page[p][j].text # first.text =>
                                  stdout[p][1] # TitleLine(argv[p][2], page[p][j])

C3_Witness ==
    \E p \in Procs :
        /\ pc[p] = "done"
        /\ Cardinality(TitleElems(page[p])) >= 2
        /\ \E j \in TitleElems(page[p]) :
               page[p][j].text # page[p][FirstTitle(page[p])].text
        /\ Len(stdout[p]) = 1

\* C4: a run started with no argument after the program name never issues a
\* request and never prints a line; the only states it reaches are the ones
\* before the indexing of the argument list and the failure state.
C4_NoArgNoFetch ==
    \A p \in Procs :
        Len(argv[p]) = 1 =>
            /\ requests[p] = <<>>
            /\ stdout[p] = <<>>
            /\ events[p] = <<>>
            /\ pc[p] \in {"start", "index", "panicked"}

C4_Witness ==
    \E p \in Procs : Len(argv[p]) = 1 /\ pc[p] = "panicked"

\* C5: a run that completed has printed exactly one line, a run that failed
\* has printed none, and a printed line is only found in a completed run.
C5_OneLineOrNone ==
    \A p \in Procs :
        /\ Len(stdout[p]) <= 1
        /\ pc[p] = "done" => Len(stdout[p]) = 1
        /\ pc[p] = "panicked" => Len(stdout[p]) = 0
        /\ Len(stdout[p]) > 0 => pc[p] = "done"

C5_Witness ==
    \E p \in Procs : pc[p] = "done" /\ Len(stdout[p]) = 1

\* C6: with two processes started on different URLs, under every
\* interleaving each process requests only its own URL and prints only the
\* line for its own URL and the body it fetched itself, and a step of one
\* process leaves the state of the other unchanged.
ProcState(p) ==
    <<pc[p], args[p], url[p], requests[p], page[p], response_text[p],
      doc[p], title[p], stdout[p], events[p]>>

C6_OwnOutput ==
    \A p \in Procs :
        /\ requests[p] \in {<<>>, <<argv[p][2]>>}
        /\ stdout[p] \in {<<>>, <<Expected(argv[p][2], page[p])>>}

C6_OneProcessSteps ==
    \E p \in Procs : \A q \in Procs \ {p} : ProcState(q)' = ProcState(q)

C6_Isolation == []C6_OwnOutput /\ [][C6_OneProcessSteps]_vars

C6_Witness ==
    /\ Procs = {1, 2}
    /\ argv[1][2] # argv[2][2]
    /\ pc[1] = "done"
    /\ pc[2] = "done"
    /\ page[1] # page[2]
    /\ stdout[1] # stdout[2]

\* C7: the events of a run happen in the order request, response, body,
\* parse, select (return of page_title), print: the log of a run is always
\* a prefix of that sequence.
C7_StrictOrder ==
    \A p \in Procs :
        /\ Len(events[p]) <= Len(Order)
        /\ events[p] = SubSeq(Order, 1, Len(events[p]))

C7_Witness ==
    \E p \in Procs : events[p] = Order

\* C8: a run issues at most one request; a run in the failure state has not
\* parsed and has not printed; and the failure state is never left.
C8_FailedClean ==
    \A p \in Procs :
        /\ Len(requests[p]) <= 1
        /\ pc[p] = "panicked" =>
               /\ stdout[p] = <<>>
               /\ doc[p] = <<>>
               /\ title[p] = None
               /\ ~Happened(p, "parse")
               /\ ~Happened(p, "print")

C8_FailureIsFinal ==
    \A p \in Procs : pc[p] = "panicked" => ProcState(p)' = ProcState(p)

C8_FetchFailureFatal == []C8_FailedClean /\ [][C8_FailureIsFinal]_vars

C8_Witness ==
    \E p \in Procs : /\ pc[p] = "panicked"
                     /\ Len(requests[p]) = 1
                     /\ Happened(p, "response")

\* C9: the URL bound by main, the URL requested and the URL in the printed
\* line are the argument at position 1, unchanged; the arguments after it
\* do not show in the request or in the output.
C9_UrlVerbatim ==
    \A p \in Procs :
        /\ url[p] \in {"", argv[p][IF Len(argv[p]) > 1 THEN 2 ELSE 1]}
        /\ Len(argv[p]) = 1 => url[p] = ""
        /\ Len(argv[p]) > 1 =>
               /\ requests[p] \in {<<>>, <<argv[p][2]>>}
               /\ stdout[p] \in {<<>>, <<Expected(argv[p][2], page[p])>>}

C9_Witness ==
    \E p \in Procs : /\ Len(argv[p]) > 2
                     /\ argv[p][3] # argv[p][2]
                     /\ pc[p] = "done"
                     /\ Len(requests[p]) = 1

\* C10: when every awaited event eventually completes or fails, every run
\* eventually ends, completed with one line printed or failed; and the only
\* way out of an await is the completion or the failure of the awaited
\* event: the program has no timeout and no cancellation.
C10_Ended ==
    \A p \in Procs : \/ pc[p] = "done" /\ Len(stdout[p]) = 1
                     \/ pc[p] = "panicked"

C10_NoTimeout ==
    \A p \in Procs :
        /\ (pc[p] = "await_get" /\ pc'[p] # pc[p]) =>
               pc'[p] \in {"await_text", "panicked"}
        /\ (pc[p] = "await_text" /\ pc'[p] # pc[p]) =>
               pc'[p] \in {"parse", "panicked"}
        /\ (pc[p] \in {"await_get", "await_text"} /\ pc'[p] = pc[p]) =>
               ProcState(p)' = ProcState(p)

C10_Termination == <>C10_Ended /\ [][C10_NoTimeout]_vars

C10_Witness ==
    \E p \in Procs : pc[p] = "done" /\ Len(stdout[p]) = 1 /\ events[p] = Order

====
